---- MODULE Spec2Model ----
(***************************************************************************)
(* A model of the AWX host-metrics exporter: the scrape scheduler          *)
(* (updateMetrics), one scrape (fetchAndUpdateMetrics) with its pagination *)
(* loop, the host-to-metric transformer (processHosts and its helpers)     *)
(* and the metric registry (five gauge families, two counters and one      *)
(* histogram).                                                             *)
(*                                                                         *)
(* Text that the code inspects character by character (URLs and `next`     *)
(* links, RFC3339 timestamps) is a sequence of one-character strings.      *)
(* Text that the code only copies into labels (names, decimal ids) is a    *)
(* TLA+ string.                                                            *)
(***************************************************************************)
EXTENDS Integers, Sequences, FiniteSets

(***************************************************************************)
(* Bounds of the model.                                                    *)
(***************************************************************************)
\* scrapes the scheduler may start in one run of the process
MaxScrapes == 2
\* pages the upstream serves in one scrape before it must end the chain
MaxPages == 2
\* times the transformer is run over the same batch of hosts
MaxRuns == 2
\* groups a host handed to the transformer may belong to
MaxGroups == 2
\* pages of one scrape the model follows when the upstream keeps linking on
MaxWalk == 4

(***************************************************************************)
(* Text helpers.                                                           *)
(***************************************************************************)
\* strings.HasPrefix over character sequences
HasPrefix(s, prefix) ==
    /\ Len(s) >= Len(prefix)
    /\ SubSeq(s, 1, Len(prefix)) = prefix

DigitChars == <<"0", "1", "2", "3", "4", "5", "6", "7", "8", "9">>

\* strconv.Itoa: the decimal text of an int
RECURSIVE ItoaNat(_)
ItoaNat(n) ==
    IF n < 10 THEN DigitChars[n + 1]
    ELSE ItoaNat(n \div 10) \o DigitChars[(n % 10) + 1]

Itoa(n) == IF n < 0 THEN "-" \o ItoaNat(-n) ELSE ItoaNat(n)

IsDigit(c) == \E i \in 1..10 : DigitChars[i] = c

DigitVal(c) == (CHOOSE i \in 1..10 : DigitChars[i] = c) - 1

\* the number written by the digits s[from..to]; -1 when one is not a digit
RECURSIVE Atoi(_, _, _)
Atoi(s, from, to) ==
    IF from > to THEN 0
    ELSE IF ~IsDigit(s[to]) THEN -1
    ELSE LET rest == Atoi(s, from, to - 1)
         IN  IF rest < 0 THEN -1 ELSE rest * 10 + DigitVal(s[to])

(***************************************************************************)
(* time.Parse(time.RFC3339, s) followed by Time.Unix().  The layout is     *)
(* "2006-01-02T15:04:05Z07:00": a date, "T", a time of day and a zone      *)
(* that is either "Z" or a signed hh:mm offset.  The result is             *)
(* [ok |-> FALSE] for text that does not match, and the seconds since the  *)
(* epoch otherwise.                                                        *)
(***************************************************************************)
IsLeap(y) == (y % 4 = 0 /\ y % 100 # 0) \/ y % 400 = 0

DaysIn(y, m) ==
    IF m = 2 THEN (IF IsLeap(y) THEN 29 ELSE 28)
    ELSE IF m \in {4, 6, 9, 11} THEN 30 ELSE 31

\* days from 1970-01-01 to y-m-d in the proleptic Gregorian calendar
DaysFromCivil(y, m, d) ==
    LET yy  == IF m <= 2 THEN y - 1 ELSE y
        era == yy \div 400
        yoe == yy - era * 400
        mp  == IF m > 2 THEN m - 3 ELSE m + 9
        doy == ((153 * mp + 2) \div 5) + d - 1
        doe == yoe * 365 + (yoe \div 4) - (yoe \div 100) + doy
    IN  era * 146097 + doe - 719468

ParseRFC3339(s) ==
    LET bad == [ok |-> FALSE, unix |-> 0]
    IN
    IF Len(s) \notin {20, 25} THEN bad
    ELSE IF ~(s[5] = "-" /\ s[8] = "-" /\ s[11] = "T" /\ s[14] = ":" /\ s[17] = ":")
    THEN bad
    ELSE
    LET y  == Atoi(s, 1, 4)
        mo == Atoi(s, 6, 7)
        d  == Atoi(s, 9, 10)
        h  == Atoi(s, 12, 13)
        mi == Atoi(s, 15, 16)
        se == Atoi(s, 18, 19)
    IN
    IF y < 0 \/ mo < 1 \/ mo > 12 \/ d < 1 \/ h < 0 \/ h > 23
       \/ mi < 0 \/ mi > 59 \/ se < 0 \/ se > 59
    THEN bad
    ELSE IF d > DaysIn(y, mo) THEN bad
    ELSE
    LET local == DaysFromCivil(y, mo, d) * 86400 + h * 3600 + mi * 60 + se
    IN
    IF Len(s) = 20
    THEN (IF s[20] = "Z" THEN [ok |-> TRUE, unix |-> local] ELSE bad)
    ELSE
    LET oh == Atoi(s, 21, 22)
        om == Atoi(s, 24, 25)
    IN
    IF s[20] \notin {"+", "-"} \/ s[23] # ":" \/ oh < 0 \/ oh > 23 \/ om < 0 \/ om > 59
    THEN bad
    ELSE [ok   |-> TRUE,
          unix |-> IF s[20] = "+" THEN local - (oh * 3600 + om * 60)
                                  ELSE local + (oh * 3600 + om * 60)]

(***************************************************************************)
(* Configuration (AWXConfig) and next-link resolution (buildURL).          *)
(***************************************************************************)
HttpPrefix  == <<"h", "t", "t", "p", ":", "/", "/">>
HttpsPrefix == <<"h", "t", "t", "p", "s", ":", "/", "/">>
SchemeSep   == <<":", "/", "/">>
Slash       == <<"/">>
EmptyText   == <<>>

\* the AWX_HOST of the modelled deployment
AwxHost == <<"a", "w", "x">>

\* the configurations loadConfig accepts: the three credentials are set
Configs ==
    { [Host |-> AwxHost, User |-> "user", Password |-> "secret",
       UseHTTP |-> u, TLSInsecure |-> FALSE] : u \in BOOLEAN }

\* the environments of the modelled deployments.  Per variable, <<>> when
\* os.Getenv gives "" (unset or set to nothing) and <<v>> when it gives v:
\* each credential set or not, HTTP unset, "true" or "1", TLS_INSECURE unset
StartEnvs ==
    { [AWX_HOST |-> h, AWX_USER |-> u, AWX_PASSWORD |-> p, HTTP |-> t,
       TLS_INSECURE |-> <<>>] :
        h \in {<<>>, <<AwxHost>>}, u \in {<<>>, <<"user">>},
        p \in {<<>>, <<"secret">>}, t \in {<<>>, <<"true">>, <<"1">>} }

getEnvOrDefault(e, key, defaultValue) ==
    IF e[key] # <<>> THEN e[key][1] ELSE defaultValue

getEnvAsBool(e, key, defaultValue) ==
    IF e[key] # <<>> THEN e[key][1] = "true" ELSE defaultValue

\* validateConfig without the check of the password
validateConfigNoPassword(c) ==
    IF c.Host = EmptyText THEN [err |-> TRUE, missing |-> "AWX_HOST"]
    ELSE IF c.User = "" THEN [err |-> TRUE, missing |-> "AWX_USER"]
    ELSE [err |-> FALSE, missing |-> ""]

validateConfig(c) ==
    IF c.Host = EmptyText THEN [err |-> TRUE, missing |-> "AWX_HOST"]
    ELSE IF c.User = "" THEN [err |-> TRUE, missing |-> "AWX_USER"]
    ELSE IF c.Password = "" THEN [err |-> TRUE, missing |-> "AWX_PASSWORD"]
    ELSE [err |-> FALSE, missing |-> ""]

\* loadConfig: the AWXConfig read from the environment, and whether
\* log.Fatalf ends the process
loadConfig(e) ==
    LET c == [Host        |-> getEnvOrDefault(e, "AWX_HOST", EmptyText),
              User        |-> getEnvOrDefault(e, "AWX_USER", ""),
              Password    |-> getEnvOrDefault(e, "AWX_PASSWORD", ""),
              UseHTTP     |-> getEnvAsBool(e, "HTTP", FALSE),
              TLSInsecure |-> getEnvAsBool(e, "TLS_INSECURE", FALSE)]
    IN  [config |-> c, fatal |-> validateConfig(c).err]

\* the AWXConfig of a process that has not loaded one
NoConfig ==
    [Host |-> EmptyText, User |-> "", Password |-> "", UseHTTP |-> FALSE,
     TLSInsecure |-> FALSE]

Protocol(config) ==
    IF config.UseHTTP THEN <<"h", "t", "t", "p">> ELSE <<"h", "t", "t", "p", "s">>

\* buildURL joining scheme, host and path whatever the path is
buildURLAlwaysJoins(config, pathOrURL) ==
    Protocol(config) \o SchemeSep \o config.Host \o pathOrURL

\* buildURL with the protocol fixed to https
buildURLAlwaysHttps(config, pathOrURL) ==
    IF HasPrefix(pathOrURL, HttpPrefix) \/ HasPrefix(pathOrURL, HttpsPrefix)
    THEN pathOrURL
    ELSE IF pathOrURL = Slash \/ pathOrURL = EmptyText
    THEN EmptyText
    ELSE IF HasPrefix(pathOrURL, Slash)
    THEN HttpsPrefix \o config.Host \o pathOrURL
    ELSE HttpsPrefix \o config.Host \o Slash \o pathOrURL

buildURL(config, pathOrURL) ==
    IF HasPrefix(pathOrURL, HttpPrefix) \/ HasPrefix(pathOrURL, HttpsPrefix)
    THEN pathOrURL
    ELSE IF pathOrURL = Slash \/ pathOrURL = EmptyText
    THEN EmptyText
    ELSE IF HasPrefix(pathOrURL, Slash)
    THEN Protocol(config) \o SchemeSep \o config.Host \o pathOrURL
    ELSE Protocol(config) \o SchemeSep \o config.Host \o Slash \o pathOrURL

\* "/api/v2/hosts/?format=json", the endpoint every scrape starts at
HostsPath ==
    <<"/", "a", "p", "i", "/", "v", "2", "/", "h", "o", "s", "t", "s", "/",
      "?", "f", "o", "r", "m", "a", "t", "=", "j", "s", "o", "n">>

(***************************************************************************)
(* The metric registry.  A gauge family is a function from label tuples    *)
(* to values; elapsed time is not modelled, and scrapeDuration is the      *)
(* number of samples the histogram holds.                                  *)
(***************************************************************************)
EmptyFamily == [l \in {} |-> 0]

GaugeFamilies ==
    {"hostInfo", "hostStatus", "hostTimestamps", "hostGroupMembership", "groupInfo"}

\* the registry after registration (init), before any write
NewRegistry ==
    [hostInfo            |-> EmptyFamily,
     hostStatus          |-> EmptyFamily,
     hostTimestamps      |-> EmptyFamily,
     hostGroupMembership |-> EmptyFamily,
     groupInfo           |-> EmptyFamily,
     scrapeDuration      |-> 0,
     scrapeErrors        |-> 0,
     hostsProcessed      |-> 0]

\* GaugeVec.WithLabelValues(labels...).Set(value): write or overwrite by key
GaugeSet(family, labels, value) ==
    [l \in (DOMAIN family) \cup {labels} |->
        IF l = labels THEN value ELSE family[l]]

\* one Set call: the family written, the label tuple and the value
Obs(fam, labels, value) == [fam |-> fam, labels |-> labels, value |-> value]

\* a Set call made as Inc: a series that exists is raised by one
ApplyObsInc(reg, o) ==
    [reg EXCEPT ![o.fam] =
        GaugeSet(@, o.labels,
                 IF o.labels \in DOMAIN @ THEN @[o.labels] + 1 ELSE o.value)]

ApplyObs(reg, o) == [reg EXCEPT ![o.fam] = GaugeSet(@, o.labels, o.value)]

\* the calls of a sequence made in order
RECURSIVE ApplyAll(_, _)
ApplyAll(reg, obs) ==
    IF obs = <<>> THEN reg
    ELSE ApplyAll(ApplyObs(reg, Head(obs)), Tail(obs))

\* ResetAllMetrics without the hostGroupMembership.Reset() line
ResetAllButMembership(reg) ==
    [reg EXCEPT !.hostInfo       = EmptyFamily,
                !.hostStatus     = EmptyFamily,
                !.hostTimestamps = EmptyFamily,
                !.groupInfo      = EmptyFamily]

\* ResetAllMetrics resetting the counters and the histogram as well
ResetEverything(reg) == NewRegistry

ResetAllMetrics(reg) ==
    [reg EXCEPT !.hostInfo            = EmptyFamily,
                !.hostStatus          = EmptyFamily,
                !.hostTimestamps      = EmptyFamily,
                !.hostGroupMembership = EmptyFamily,
                !.groupInfo           = EmptyFamily]

IncrementHostsProcessed(reg, count) ==
    [reg EXCEPT !.hostsProcessed = @ + count]

RecordScrapeError(reg) ==
    [reg EXCEPT !.scrapeErrors = @ + 1]

\* scrapeDuration.Observe(duration.Seconds()): one more sample
ObserveDuration(reg) ==
    [reg EXCEPT !.scrapeDuration = @ + 1]

\* the five per-scrape gauge families of a registry
Gauges(reg) == [f \in GaugeFamilies |-> reg[f]]

(***************************************************************************)
(* The transformer: processHosts and its helpers.  Each helper yields the  *)
(* Set calls it makes, in order, and whether it returned an error.         *)
(***************************************************************************)
\* boolToFloat with its two values exchanged
boolToFloatFlipped(b) == IF b THEN 0 ELSE 1

boolToFloat(b) == IF b THEN 1 ELSE 0

\* boolToString written like boolToFloat
boolToStringNumeric(b) == IF b THEN "1" ELSE "0"

boolToString(b) == IF b THEN "true" ELSE "false"

setTimestampMetric(timestampStr, id, name, event) ==
    LET t == ParseRFC3339(timestampStr)
    IN  IF ~t.ok
        THEN [obs |-> <<>>, err |-> TRUE]
        ELSE [obs |-> <<Obs("hostTimestamps", <<id, name, event>>, t.unix)>>,
              err |-> FALSE]

RECURSIVE StatusPerGroup(_, _, _, _)
StatusPerGroup(groups, idStr, host, vals) ==
    IF groups = <<>> THEN <<>>
    ELSE << Obs("hostStatus",
                <<idStr, host.Name, "active_failures", Head(groups).Name>>, vals[1]),
            Obs("hostStatus",
                <<idStr, host.Name, "inventory_sources", Head(groups).Name>>, vals[2]) >>
         \o StatusPerGroup(Tail(groups), idStr, host, vals)

\* processHostStatus without the fan-out over the host's groups
processHostStatusNoFanOut(host, idStr) ==
    [obs |-> << Obs("hostStatus",
                    <<idStr, host.Name, "active_failures", "none">>,
                    boolToFloat(host.HasActiveFailures)),
                Obs("hostStatus",
                    <<idStr, host.Name, "inventory_sources", "none">>,
                    boolToFloat(host.HasInventorySources)) >>,
     err |-> FALSE]

processHostStatus(host, idStr) ==
    LET activeFailures   == boolToFloat(host.HasActiveFailures)
        inventorySources == boolToFloat(host.HasInventorySources)
    IN  IF Len(host.SummaryFields.Groups.Results) = 0
        THEN [obs |-> << Obs("hostStatus",
                             <<idStr, host.Name, "active_failures", "none">>,
                             activeFailures),
                         Obs("hostStatus",
                             <<idStr, host.Name, "inventory_sources", "none">>,
                             inventorySources) >>,
              err |-> FALSE]
        ELSE [obs |-> StatusPerGroup(host.SummaryFields.Groups.Results, idStr, host,
                                     <<activeFailures, inventorySources>>),
              err |-> FALSE]

processHostTimestamps(host, idStr) ==
    LET c == setTimestampMetric(host.Created, idStr, host.Name, "created")
        m == setTimestampMetric(host.Modified, idStr, host.Name, "modified")
    IN  IF c.err THEN c
        ELSE IF m.err THEN [obs |-> c.obs \o m.obs, err |-> TRUE]
        ELSE IF host.AnsibleFactsModified # <<>>
        THEN LET f == setTimestampMetric(host.AnsibleFactsModified[1], idStr,
                                         host.Name, "ansible_facts_modified")
             IN  [obs |-> c.obs \o m.obs \o f.obs, err |-> f.err]
        ELSE [obs |-> c.obs \o m.obs, err |-> FALSE]

RECURSIVE GroupObs(_, _, _, _)
GroupObs(groups, idStr, hostName, invIDStr) ==
    IF groups = <<>> THEN <<>>
    ELSE LET group      == Head(groups)
             groupIDStr == Itoa(group.ID)
         IN  << Obs("hostGroupMembership",
                    <<idStr, hostName, groupIDStr, group.Name>>, 1),
                Obs("groupInfo", <<groupIDStr, group.Name, invIDStr>>, 1) >>
             \o GroupObs(Tail(groups), idStr, hostName, invIDStr)

processHostGroups(host, idStr, invIDStr) ==
    [obs |-> GroupObs(host.SummaryFields.Groups.Results, idStr, host.Name, invIDStr),
     err |-> FALSE]

processHost(host) ==
    LET idStr      == Itoa(host.ID)
        invIDStr   == Itoa(host.SummaryFields.Inventory.ID)
        enabledStr == boolToString(host.Enabled)
        info       == << Obs("hostInfo",
                             <<idStr, host.Name, invIDStr,
                               host.SummaryFields.Inventory.Name, enabledStr,
                               host.InstanceID>>, 1) >>
        status     == processHostStatus(host, idStr)
        stamps     == processHostTimestamps(host, idStr)
        groups     == processHostGroups(host, idStr, invIDStr)
    IN  IF status.err THEN [obs |-> info \o status.obs, err |-> TRUE]
        ELSE IF stamps.err
        THEN [obs |-> info \o status.obs \o stamps.obs, err |-> TRUE]
        ELSE [obs |-> info \o status.obs \o stamps.obs \o groups.obs,
              err |-> groups.err]

\* the Set calls processHosts makes for a list of hosts, host by host
RECURSIVE HostsObs(_)
HostsObs(hosts) ==
    IF hosts = <<>> THEN <<>>
    ELSE processHost(Head(hosts)).obs \o HostsObs(Tail(hosts))

\* processHosts counting only the hosts processHost returned no error for
processHostsCountsGood(reg, hosts) ==
    LET good == { i \in 1..Len(hosts) : ~processHost(hosts[i]).err }
    IN  IF Len(hosts) = 0 THEN reg
        ELSE IncrementHostsProcessed(ApplyAll(reg, HostsObs(hosts)),
                                     Cardinality(good))

processHosts(reg, hosts) ==
    LET hostCount == Len(hosts)
    IN  IF hostCount = 0 THEN reg
        ELSE IncrementHostsProcessed(ApplyAll(reg, HostsObs(hosts)), hostCount)

(***************************************************************************)
(* The upstream API as the exporter sees it.                               *)
(***************************************************************************)
\* "2024-01-01T00:00:00Z"
TsCreated ==
    <<"2", "0", "2", "4", "-", "0", "1", "-", "0", "1", "T",
      "0", "0", ":", "0", "0", ":", "0", "0", "Z">>

\* "2024-03-01T12:30:00+01:00"
TsModified ==
    <<"2", "0", "2", "4", "-", "0", "3", "-", "0", "1", "T",
      "1", "2", ":", "3", "0", ":", "0", "0", "+", "0", "1", ":", "0", "0">>

\* "2024-13-01T00:00:00Z": no month 13
TsBadMonth ==
    <<"2", "0", "2", "4", "-", "1", "3", "-", "0", "1", "T",
      "0", "0", ":", "0", "0", ":", "0", "0", "Z">>

\* "2024-01-01": a date without a time of day
TsDateOnly == <<"2", "0", "2", "4", "-", "0", "1", "-", "0", "1">>

Group(i) == [ID |-> i, Name |-> "g" \o Itoa(i)]

\* the groups 1..n, in order
GroupsUpTo(n) == [i \in 1..n |-> Group(i)]

\* a Host as json.Unmarshal leaves it; a nil *string is <<>>, a set one <<s>>
MkHost(id, enabled, failures, sources, created, modified, facts, groups) ==
    [ID                   |-> id,
     Created              |-> created,
     Modified             |-> modified,
     Name                 |-> "h" \o Itoa(id),
     Inventory            |-> 1,
     Enabled              |-> enabled,
     InstanceID           |-> "",
     HasActiveFailures    |-> failures,
     HasInventorySources  |-> sources,
     AnsibleFactsModified |-> facts,
     SummaryFields        |->
        [Inventory |-> [ID |-> 1, Name |-> "inv"],
         Groups    |-> [Count |-> Len(groups), Results |-> groups]]]

\* the host the upstream reports under an id during scrapes: host 1 is in
\* no group, host 2 in one, host 3 in two, and so on round
ScrapeHost(id) ==
    MkHost(id, id % 2 = 1, id % 2 = 0, FALSE, TsCreated, TsModified, <<>>,
           GroupsUpTo((id - 1) % 3))

\* the ids of the hosts the upstream serves during scrapes
HostIds == {1, 2}

\* the result lists of a page: the hosts of a run of consecutive ids
PageResults ==
    {<<>>} \cup
    { [k \in 1..(j - i + 1) |-> ScrapeHost(i + k - 1)] :
        <<i, j>> \in {ij \in HostIds \X HostIds : ij[1] <= ij[2]} }

\* "/n" and "n": relative links to the following page
NextRelSlash == <<"/", "n">>
NextRel      == <<"n">>
\* "http://awx/n": an absolute link
NextAbs      == HttpPrefix \o AwxHost \o NextRelSlash

\* the `next` a page may carry: absent or null (<<>>), or a text
NextLinks ==
    { <<>>, <<EmptyText>>, <<Slash>>, <<NextRelSlash>>, <<NextRel>>, <<NextAbs>> }

\* a response body: whether the text holds "<html", whether it is a JSON
\* document that decodes into HostResponse, and that document's fields
JsonBody(next, results) ==
    [empty |-> FALSE, html |-> FALSE, valid |-> TRUE, next |-> next,
     results |-> results]

\* a JSON page one of whose strings holds the text "<html"
MarkupJsonBody(next, results) ==
    [empty |-> FALSE, html |-> TRUE, valid |-> TRUE, next |-> next,
     results |-> results]

HtmlBody ==
    [empty |-> FALSE, html |-> TRUE, valid |-> FALSE, next |-> <<>>,
     results |-> <<>>]

GarbageBody ==
    [empty |-> FALSE, html |-> FALSE, valid |-> FALSE, next |-> <<>>,
     results |-> <<>>]

EmptyBody ==
    [empty |-> TRUE, html |-> FALSE, valid |-> FALSE, next |-> <<>>,
     results |-> <<>>]

\* what one GET may end in: no response at all, or a status and a body
\* which may fail to be read
Response(transportErr, status, readErr, body) ==
    [transportErr |-> transportErr, StatusCode |-> status, readErr |-> readErr,
     body |-> body]

PageResponses ==
    { Response(FALSE, 200, FALSE, JsonBody(n, r)) :
        n \in NextLinks, r \in PageResults }

FailedResponses ==
    { Response(TRUE, 0, FALSE, EmptyBody),
      Response(FALSE, 500, FALSE, GarbageBody),
      Response(FALSE, 200, TRUE, EmptyBody),
      Response(FALSE, 200, FALSE, HtmlBody) }

UndecodableResponses ==
    { Response(FALSE, 200, FALSE, GarbageBody),
      Response(FALSE, 200, FALSE, EmptyBody) }

Responses == PageResponses \cup FailedResponses \cup UndecodableResponses

\* what makeAWXRequest returns: the body and a nil error, or a nil body and
\* an error of one of four kinds; the status error carries the status code
Fetched(body) == [err |-> FALSE, kind |-> "none", status |-> 0, body |-> body]

FetchError(kind, status) ==
    [err |-> TRUE, kind |-> kind, status |-> status, body |-> EmptyBody]

\* makeAWXRequest taking every status from 200 to 299 for a success
makeAWXRequestAny2xx(resp) ==
    IF resp.transportErr THEN FetchError("transport", 0)
    ELSE IF resp.StatusCode < 200 \/ resp.StatusCode > 299
    THEN FetchError("status", resp.StatusCode)
    ELSE IF resp.readErr THEN FetchError("read", 0)
    ELSE IF ~resp.body.empty /\ resp.body.html THEN FetchError("html", 0)
    ELSE Fetched(resp.body)

\* makeAWXRequest: the body, or an error
makeAWXRequest(resp) ==
    IF resp.transportErr THEN FetchError("transport", 0)
    ELSE IF resp.StatusCode # 200 THEN FetchError("status", resp.StatusCode)
    ELSE IF resp.readErr THEN FetchError("read", 0)
    ELSE IF ~resp.body.empty /\ resp.body.html THEN FetchError("html", 0)
    ELSE Fetched(resp.body)

\* json.Unmarshal(body, &hostResponse): an absent or null next stays ""
Unmarshal(body) ==
    IF ~body.valid
    THEN [err |-> TRUE, value |-> [Next |-> EmptyText, Results |-> <<>>]]
    ELSE [err   |-> FALSE,
          value |-> [Next    |-> IF body.next = <<>> THEN EmptyText ELSE body.next[1],
                     Results |-> body.results]]

(***************************************************************************)
(* State.                                                                  *)
(***************************************************************************)
VARIABLES
    config,       \* the AWXConfig loadConfig returned
    registry,     \* the metric registry
    pc,           \* where the updateMetrics goroutine is
    nextURL,      \* fetchAndUpdateMetrics: the URL of the next request
    pageCount,    \* fetchAndUpdateMetrics: pages fetched in this scrape
    totalHosts,   \* fetchAndUpdateMetrics: hosts decoded in this scrape
    tickPending,  \* a tick is waiting in ticker.C
    ctxDone,      \* the scheduler's context is cancelled
    scrapes,      \* history: trigger and result of every scrape so far
    requests,     \* history: the URLs requested in this scrape, in order
    servedIds,    \* history: the ids of the hosts decoded in this scrape
    lastNext,     \* history: the `next` of the page decoded last
    lastGood,     \* history: the gauge families as the last successful
                  \* scrape before this one left them
    prevIds,      \* history: the host ids the previous scrape decoded
    batch,        \* transformer runs: the hosts handed to processHosts
    obsLog,       \* transformer runs: per host of the batch, the Set calls
                  \* processHost made for it in the last run
    runs,         \* transformer runs: calls of processHosts so far
    env,          \* startup: the environment variables of the process
    main,         \* startup: where the main goroutine is
    link,         \* client calls: the path or `next` handed to buildURL
    resolved,     \* client calls: <<>>, or <<u>> once buildURL returned u
    upstream,     \* client calls: what the GET of makeAWXRequest ends in
    fetched       \* client calls: <<>>, or <<r>> once makeAWXRequest
                  \* returned r

vars ==
    <<config, registry, pc, nextURL, pageCount, totalHosts, tickPending, ctxDone,
      scrapes, requests, servedIds, lastNext, lastGood, prevIds, batch, obsLog,
      runs, env, main, link, resolved, upstream, fetched>>

\* what a scrape and the scheduler read and write next to the registry
sched ==
    <<config, pc, nextURL, pageCount, totalHosts, tickPending, ctxDone,
      scrapes, requests, servedIds, lastNext, lastGood, prevIds>>

\* what the transformer runs read and write next to the registry
harness == <<batch, obsLog, runs>>

\* what the startup of the process reads and writes next to the config
startup == <<env, main>>

\* what the calls of the client functions read and write
client == <<link, resolved, upstream, fetched>>

\* the parts of the state a specification does not move
others == <<harness, startup, client>>

\* the environment of the deployment of the scheduler runs
ScrapeEnv ==
    [AWX_HOST |-> <<AwxHost>>, AWX_USER |-> <<"user">>,
     AWX_PASSWORD |-> <<"secret">>, HTTP |-> <<>>, TLS_INSECURE |-> <<>>]

\* a GET that ends without a response
NoResponse == Response(TRUE, 0, FALSE, EmptyBody)

\* the scrape and its histories before the first scrape
NoScrapeYet ==
    /\ registry = NewRegistry
    /\ nextURL = EmptyText
    /\ pageCount = 0
    /\ totalHosts = 0
    /\ tickPending = FALSE
    /\ ctxDone = FALSE
    /\ scrapes = <<>>
    /\ requests = <<>>
    /\ servedIds = {}
    /\ lastNext = EmptyText
    /\ lastGood = Gauges(NewRegistry)
    /\ prevIds = {}

\* no transformer run is set up
NoTransformerRun == batch = <<>> /\ obsLog = <<>> /\ runs = 0

\* the process is past its startup: main sits in ListenAndServe
StartupOver == env = ScrapeEnv /\ main = "serving"

\* no client call is set up
NoClientCall ==
    link = EmptyText /\ resolved = <<>> /\ upstream = NoResponse /\ fetched = <<>>

\* the host ids in a result list
IdsOf(hosts) == { hosts[i].ID : i \in DOMAIN hosts }

LastResult == IF scrapes = <<>> THEN "none" ELSE scrapes[Len(scrapes)].result

\* the deployment of the scheduler runs: AWX reached over https
ScrapeConfig == CHOOSE c \in Configs : ~c.UseHTTP

Init ==
    /\ config = ScrapeConfig
    /\ registry = NewRegistry
    /\ pc = "start"
    /\ nextURL = EmptyText
    /\ pageCount = 0
    /\ totalHosts = 0
    /\ tickPending = FALSE
    /\ ctxDone = FALSE
    /\ scrapes = <<>>
    /\ requests = <<>>
    /\ servedIds = {}
    /\ lastNext = EmptyText
    /\ lastGood = Gauges(NewRegistry)
    /\ prevIds = {}
    /\ batch = <<>>
    /\ obsLog = <<>>
    /\ runs = 0
    /\ StartupOver
    /\ NoClientCall

(***************************************************************************)
(* One scrape: fetchAndUpdateMetrics, cut at its HTTP requests.            *)
(***************************************************************************)
\* the scrape's result recorded in the history
Finished(result) ==
    [scrapes EXCEPT ![Len(scrapes)] = [@ EXCEPT !.result = result]]

\* fetchAndUpdateMetrics up to its first request: the reset and the first URL
BeginScrape(trigger) ==
    /\ Len(scrapes) < MaxScrapes
    /\ registry' = ResetAllMetrics(registry)
    /\ nextURL' = buildURL(config, HostsPath)
    /\ pageCount' = 0
    /\ totalHosts' = 0
    /\ pc' = "fetch"
    /\ scrapes' = Append(scrapes, [trigger |-> trigger, result |-> "running"])
    /\ requests' = <<>>
    /\ servedIds' = {}
    /\ lastNext' = EmptyText
    /\ lastGood' = IF LastResult = "ok" THEN Gauges(registry) ELSE lastGood
    /\ prevIds' = servedIds
    /\ UNCHANGED <<config, ctxDone>>
    /\ UNCHANGED others

\* the end of a failed scrape: RecordScrapeError before the return, the
\* deferred Observe, and the caller's RecordScrapeError
ScrapeFailed(reg) ==
    RecordScrapeError(ObserveDuration(RecordScrapeError(reg)))

\* the end of a scrape that returns nil: the deferred Observe
ScrapeSucceeded(reg) == ObserveDuration(reg)

\* a failed request counted as an error and made again at once
FetchFailsRetries(resp) ==
    /\ pc = "fetch"
    /\ nextURL # EmptyText
    /\ makeAWXRequest(resp).err
    /\ requests' = Append(requests, nextURL)
    /\ registry' = ScrapeFailed(registry)
    /\ scrapes' = Finished("err")
    /\ pc' = "fetch"
    /\ UNCHANGED <<config, nextURL, pageCount, totalHosts, tickPending, ctxDone,
                   servedIds, lastNext, lastGood, prevIds>>
    /\ UNCHANGED others

\* one loop iteration whose request fails
FetchFails(resp) ==
    /\ pc = "fetch"
    /\ nextURL # EmptyText
    /\ makeAWXRequest(resp).err
    /\ requests' = Append(requests, nextURL)
    /\ registry' = ScrapeFailed(registry)
    /\ scrapes' = Finished("err")
    /\ pc' = "select"
    /\ UNCHANGED <<config, nextURL, pageCount, totalHosts, tickPending, ctxDone,
                   servedIds, lastNext, lastGood, prevIds>>
    /\ UNCHANGED others

\* one loop iteration whose body does not decode
DecodeFails(resp) ==
    /\ pc = "fetch"
    /\ nextURL # EmptyText
    /\ ~makeAWXRequest(resp).err
    /\ Unmarshal(makeAWXRequest(resp).body).err
    /\ requests' = Append(requests, nextURL)
    /\ pageCount' = pageCount + 1
    /\ registry' = ScrapeFailed(registry)
    /\ scrapes' = Finished("err")
    /\ pc' = "select"
    /\ UNCHANGED <<config, nextURL, totalHosts, tickPending, ctxDone,
                   servedIds, lastNext, lastGood, prevIds>>
    /\ UNCHANGED others

\* a loop iteration that decodes a page and gives the scrape up when
\* processHost returned an error for one of the page's hosts
PageProcessedAborts(resp) ==
    /\ pc = "fetch"
    /\ nextURL # EmptyText
    /\ ~makeAWXRequest(resp).err
    /\ ~Unmarshal(makeAWXRequest(resp).body).err
    /\ LET hostResponse == Unmarshal(makeAWXRequest(resp).body).value
           url          == buildURL(config, hostResponse.Next)
           reg          == processHosts(registry, hostResponse.Results)
           failed       == \E i \in DOMAIN hostResponse.Results :
                               processHost(hostResponse.Results[i]).err
       IN  /\ pageCount + 1 < MaxPages \/ url = EmptyText
           /\ requests' = Append(requests, nextURL)
           /\ servedIds' = servedIds \cup IdsOf(hostResponse.Results)
           /\ lastNext' = hostResponse.Next
           /\ pageCount' = pageCount + 1
           /\ totalHosts' = totalHosts + Len(hostResponse.Results)
           /\ nextURL' = url
           /\ IF failed
              THEN /\ registry' = ScrapeFailed(reg)
                   /\ scrapes' = Finished("err")
                   /\ pc' = "select"
              ELSE IF url = EmptyText
              THEN /\ registry' = ScrapeSucceeded(reg)
                   /\ scrapes' = Finished("ok")
                   /\ pc' = "select"
              ELSE /\ registry' = reg
                   /\ scrapes' = scrapes
                   /\ pc' = "fetch"
    /\ UNCHANGED <<config, tickPending, ctxDone, lastGood, prevIds>>
    /\ UNCHANGED others

\* one loop iteration that decodes a page; when the page's next resolves to
\* "" the loop ends and the scrape returns nil
PageProcessed(resp) ==
    /\ pc = "fetch"
    /\ nextURL # EmptyText
    /\ ~makeAWXRequest(resp).err
    /\ ~Unmarshal(makeAWXRequest(resp).body).err
    /\ LET hostResponse == Unmarshal(makeAWXRequest(resp).body).value
           url          == buildURL(config, hostResponse.Next)
           reg          == processHosts(registry, hostResponse.Results)
       IN  /\ pageCount + 1 < MaxPages \/ url = EmptyText
           /\ requests' = Append(requests, nextURL)
           /\ servedIds' = servedIds \cup IdsOf(hostResponse.Results)
           /\ lastNext' = hostResponse.Next
           /\ pageCount' = pageCount + 1
           /\ totalHosts' = totalHosts + Len(hostResponse.Results)
           /\ nextURL' = url
           /\ IF url = EmptyText
              THEN /\ registry' = ScrapeSucceeded(reg)
                   /\ scrapes' = Finished("ok")
                   /\ pc' = "select"
              ELSE /\ registry' = reg
                   /\ scrapes' = scrapes
                   /\ pc' = "fetch"
    /\ UNCHANGED <<config, tickPending, ctxDone, lastGood, prevIds>>
    /\ UNCHANGED others

(***************************************************************************)
(* The scheduler: updateMetrics, and the shutdown goroutine of main.       *)
(***************************************************************************)
\* updateMetrics going to its select without an initial collection
InitialScrapeDeferred ==
    /\ pc = "start"
    /\ pc' = "select"
    /\ UNCHANGED <<config, registry, nextURL, pageCount, totalHosts, tickPending,
                   ctxDone, scrapes, requests, servedIds, lastNext, lastGood, prevIds>>
    /\ UNCHANGED others

\* updateMetrics creates the ticker and runs the initial collection
InitialScrape ==
    /\ pc = "start"
    /\ BeginScrape("initial")
    /\ UNCHANGED tickPending

\* a tick starting a collection wherever the loop is
TickScrapeInFlight ==
    /\ pc \in {"fetch", "select"}
    /\ tickPending
    /\ tickPending' = FALSE
    /\ BeginScrape("tick")

\* the select takes the tick and runs a collection
TickScrape ==
    /\ pc = "select"
    /\ tickPending
    /\ tickPending' = FALSE
    /\ BeginScrape("tick")

\* a select that takes ctx.Done() only when no tick is waiting
LoopReturnsWhenIdle ==
    /\ pc = "select"
    /\ ctxDone
    /\ ~tickPending
    /\ pc' = "returned"
    /\ UNCHANGED <<config, registry, nextURL, pageCount, totalHosts, tickPending,
                   ctxDone, scrapes, requests, servedIds, lastNext, lastGood, prevIds>>
    /\ UNCHANGED others

\* the select takes ctx.Done(): updateMetrics returns, the ticker stops
LoopReturns ==
    /\ pc = "select"
    /\ ctxDone
    /\ pc' = "returned"
    /\ UNCHANGED <<config, registry, nextURL, pageCount, totalHosts, tickPending,
                   ctxDone, scrapes, requests, servedIds, lastNext, lastGood, prevIds>>
    /\ UNCHANGED others

\* the ticker fires; ticker.C holds one tick and a second one is dropped
Tick ==
    /\ pc \in {"fetch", "select"}
    /\ tickPending' = TRUE
    /\ UNCHANGED <<config, registry, pc, nextURL, pageCount, totalHosts, ctxDone,
                   scrapes, requests, servedIds, lastNext, lastGood, prevIds>>
    /\ UNCHANGED others

\* SIGINT or SIGTERM: the shutdown goroutine cancels the context
Shutdown ==
    /\ main \in {"listen", "serving"}
    /\ ~ctxDone
    /\ ctxDone' = TRUE
    /\ UNCHANGED <<config, registry, pc, nextURL, pageCount, totalHosts,
                   tickPending, scrapes, requests, servedIds, lastNext, lastGood,
                   prevIds>>
    /\ UNCHANGED others

Next ==
    \/ InitialScrape
    \/ TickScrape
    \/ \E resp \in Responses : FetchFails(resp)
    \/ \E resp \in Responses : DecodeFails(resp)
    \/ \E resp \in Responses : PageProcessed(resp)
    \/ LoopReturns
    \/ Tick
    \/ Shutdown

Spec == Init /\ [][Next]_vars

(***************************************************************************)
(* Transformer runs: processHosts applied to a batch of hosts drawn by the *)
(* initial state, up to MaxRuns times without a reset in between.          *)
(***************************************************************************)
GroupLists == { GroupsUpTo(n) : n \in 0..MaxGroups }

\* the hosts a batch of one is drawn from
TransformHosts ==
    { MkHost(id, e, f, s, c, m, a, g) :
        id \in HostIds, e \in BOOLEAN, f \in BOOLEAN, s \in BOOLEAN,
        c \in {TsCreated, TsDateOnly}, m \in {TsModified, TsBadMonth},
        a \in {<<>>, <<TsCreated>>, <<TsBadMonth>>}, g \in GroupLists }

\* the hosts a batch of two is drawn from
PairHosts ==
    { MkHost(id, e, f, FALSE, TsCreated, m, <<>>, g) :
        id \in HostIds, e \in BOOLEAN, f \in BOOLEAN,
        m \in {TsModified, TsBadMonth}, g \in GroupLists }

Batches ==
    {<<>>} \cup { <<h>> : h \in TransformHosts }
           \cup { <<a, b>> : a \in PairHosts, b \in PairHosts }

InitTransform ==
    /\ config = ScrapeConfig
    /\ registry = NewRegistry
    /\ pc = "transform"
    /\ nextURL = EmptyText
    /\ pageCount = 0
    /\ totalHosts = 0
    /\ tickPending = FALSE
    /\ ctxDone = FALSE
    /\ scrapes = <<>>
    /\ requests = <<>>
    /\ servedIds = {}
    /\ lastNext = EmptyText
    /\ lastGood = Gauges(NewRegistry)
    /\ prevIds = {}
    /\ batch \in Batches
    /\ obsLog = <<>>
    /\ runs = 0
    /\ StartupOver
    /\ NoClientCall

\* one call processHosts(batch)
RunTransformer ==
    /\ pc = "transform"
    /\ runs < MaxRuns
    /\ registry' = processHosts(registry, batch)
    /\ obsLog' = [i \in DOMAIN batch |-> processHost(batch[i]).obs]
    /\ runs' = runs + 1
    /\ UNCHANGED <<sched, batch, startup, client>>

NextTransform == RunTransformer

SpecTransform == InitTransform /\ [][NextTransform]_vars

(***************************************************************************)
(* The scheduler against an upstream that is free to link on from every    *)
(* page: two pages that link to each other and one page that ends the      *)
(* chain.  The model follows a scrape for MaxWalk pages.                   *)
(***************************************************************************)
WalkResponses ==
    { Response(FALSE, 200, FALSE, JsonBody(<<NextRelSlash>>, <<ScrapeHost(1)>>)),
      Response(FALSE, 200, FALSE, JsonBody(<<NextAbs>>, <<ScrapeHost(2)>>)),
      Response(FALSE, 200, FALSE, JsonBody(<<>>, <<ScrapeHost(1)>>)) }

\* a loop iteration that ends the scrape after its third page whatever the
\* page's next is
PageWalkedCapped(resp) ==
    /\ pc = "fetch"
    /\ nextURL # EmptyText
    /\ pageCount < MaxWalk
    /\ ~makeAWXRequest(resp).err
    /\ ~Unmarshal(makeAWXRequest(resp).body).err
    /\ LET hostResponse == Unmarshal(makeAWXRequest(resp).body).value
           url          == buildURL(config, hostResponse.Next)
           reg          == processHosts(registry, hostResponse.Results)
       IN  /\ requests' = Append(requests, nextURL)
           /\ servedIds' = servedIds \cup IdsOf(hostResponse.Results)
           /\ lastNext' = hostResponse.Next
           /\ pageCount' = pageCount + 1
           /\ totalHosts' = totalHosts + Len(hostResponse.Results)
           /\ nextURL' = url
           /\ IF url = EmptyText \/ pageCount + 1 >= 3
              THEN /\ registry' = ScrapeSucceeded(reg)
                   /\ scrapes' = Finished("ok")
                   /\ pc' = "select"
              ELSE /\ registry' = reg
                   /\ scrapes' = scrapes
                   /\ pc' = "fetch"
    /\ UNCHANGED <<config, tickPending, ctxDone, lastGood, prevIds>>
    /\ UNCHANGED others

\* one loop iteration that decodes a page, whatever the number of pages
\* before it; the loop ends only when the page's next resolves to ""
PageWalked(resp) ==
    /\ pc = "fetch"
    /\ nextURL # EmptyText
    /\ pageCount < MaxWalk
    /\ ~makeAWXRequest(resp).err
    /\ ~Unmarshal(makeAWXRequest(resp).body).err
    /\ LET hostResponse == Unmarshal(makeAWXRequest(resp).body).value
           url          == buildURL(config, hostResponse.Next)
           reg          == processHosts(registry, hostResponse.Results)
       IN  /\ requests' = Append(requests, nextURL)
           /\ servedIds' = servedIds \cup IdsOf(hostResponse.Results)
           /\ lastNext' = hostResponse.Next
           /\ pageCount' = pageCount + 1
           /\ totalHosts' = totalHosts + Len(hostResponse.Results)
           /\ nextURL' = url
           /\ IF url = EmptyText
              THEN /\ registry' = ScrapeSucceeded(reg)
                   /\ scrapes' = Finished("ok")
                   /\ pc' = "select"
              ELSE /\ registry' = reg
                   /\ scrapes' = scrapes
                   /\ pc' = "fetch"
    /\ UNCHANGED <<config, tickPending, ctxDone, lastGood, prevIds>>
    /\ UNCHANGED others

NextWalk ==
    \/ InitialScrape
    \/ TickScrape
    \/ \E resp \in WalkResponses : PageWalked(resp)
    \/ LoopReturns
    \/ Tick
    \/ Shutdown

SpecWalk == Init /\ [][NextWalk]_vars

(***************************************************************************)
(* The process from its start: main loads the configuration, starts the    *)
(* scheduler and the shutdown goroutine and serves HTTP, against an        *)
(* upstream one of whose hosts carries a timestamp that does not parse.    *)
(***************************************************************************)
\* host 3: in one group, its modified is not a timestamp
BadStampHost ==
    MkHost(3, TRUE, FALSE, FALSE, TsCreated, TsBadMonth, <<>>, GroupsUpTo(1))

\* what this upstream answers: a page of host 3 and host 2 that links to a
\* further page, a last page of host 1, an undecodable body, or nothing
ProcessResponses ==
    { Response(FALSE, 200, FALSE,
               JsonBody(<<NextRelSlash>>, <<BadStampHost, ScrapeHost(2)>>)),
      Response(FALSE, 200, FALSE, JsonBody(<<>>, <<ScrapeHost(1)>>)),
      Response(FALSE, 200, FALSE, GarbageBody),
      NoResponse }

InitProcess ==
    /\ env \in StartEnvs
    /\ main = "load"
    /\ config = NoConfig
    /\ pc = "unspawned"
    /\ NoScrapeYet
    /\ NoTransformerRun
    /\ NoClientCall

\* main calls loadConfig: log.Fatalf ends the process, or the config is set
LoadConfig ==
    /\ main = "load"
    /\ LET r == loadConfig(env)
       IN  IF r.fatal
           THEN main' = "fatal" /\ config' = config
           ELSE main' = "loaded" /\ config' = r.config
    /\ UNCHANGED <<registry, pc, nextURL, pageCount, totalHosts, tickPending,
                   ctxDone, scrapes, requests, servedIds, lastNext, lastGood,
                   prevIds, env>>
    /\ UNCHANGED <<harness, client>>

\* main builds the server, starts updateMetrics and the shutdown goroutine
SpawnScheduler ==
    /\ main = "loaded"
    /\ pc = "unspawned"
    /\ main' = "listen"
    /\ pc' = "start"
    /\ UNCHANGED <<config, registry, nextURL, pageCount, totalHosts, tickPending,
                   ctxDone, scrapes, requests, servedIds, lastNext, lastGood,
                   prevIds, env>>
    /\ UNCHANGED <<harness, client>>

\* main calls server.ListenAndServe: /metrics and /health are served
ListenAndServe ==
    /\ main = "listen"
    /\ main' = "serving"
    /\ UNCHANGED <<sched, registry, env>>
    /\ UNCHANGED <<harness, client>>

\* after the cancellation the shutdown goroutine calls server.Shutdown,
\* ListenAndServe returns ErrServerClosed and main returns: the process
\* exits without waiting for updateMetrics, which is abandoned where it is
\* unless it has returned already
MainReturns ==
    /\ main \in {"listen", "serving"}
    /\ ctxDone
    /\ main' = "exited"
    /\ pc' = IF pc = "returned" THEN pc ELSE "abandoned"
    /\ UNCHANGED <<config, registry, nextURL, pageCount, totalHosts, tickPending,
                   ctxDone, scrapes, requests, servedIds, lastNext, lastGood,
                   prevIds, env>>
    /\ UNCHANGED <<harness, client>>

NextProcess ==
    \/ LoadConfig
    \/ SpawnScheduler
    \/ ListenAndServe
    \/ InitialScrape
    \/ TickScrape
    \/ \E resp \in ProcessResponses : FetchFails(resp)
    \/ \E resp \in ProcessResponses : DecodeFails(resp)
    \/ \E resp \in ProcessResponses : PageProcessed(resp)
    \/ LoopReturns
    \/ Tick
    \/ Shutdown
    \/ MainReturns

SpecProcess == InitProcess /\ [][NextProcess]_vars

\* one iteration of the pagination loop of the scrape in flight
ScrapeStep ==
    \E resp \in ProcessResponses :
        FetchFails(resp) \/ DecodeFails(resp) \/ PageProcessed(resp)

\* the process under fair scheduling: the goroutine of updateMetrics runs
\* (its initial collection starts, and a request of the scrape in flight
\* is answered or fails), and a select that finds ctx.Done() ready time
\* and again takes it in the end, as Go's select chooses among its ready
\* cases at random.  Signals, ticks and the exit of the process are under
\* no obligation.
SpecProcessFair ==
    /\ InitProcess
    /\ [][NextProcess]_vars
    /\ WF_vars(InitialScrape)
    /\ WF_vars(ScrapeStep)
    /\ SF_vars(LoopReturns)

(***************************************************************************)
(* The job-template variant of the exporter: its three gauge families,     *)
(* scrapeAWX with its pagination loop, cut at its HTTP requests, and the   *)
(* goroutine that calls it and sleeps.  Here registry is the variant's     *)
(* registry, nextURL its nextPagePath, batch the templates decoded since   *)
(* the reset, pageCount the pages decoded since the reset and runs the     *)
(* calls of scrapeAWX so far.  The URL a path resolves to is not           *)
(* modelled: what the upstream answers is free in any case.                *)
(***************************************************************************)
NewTemplateRegistry ==
    [jobLastRunTimestamp  |-> EmptyFamily,
     inventoryFailedHosts |-> EmptyFamily,
     inventoryTotalHosts  |-> EmptyFamily]

\* the three Reset calls at the start of scrapeAWX
ResetTemplateMetrics(reg) ==
    [reg EXCEPT !.jobLastRunTimestamp  = EmptyFamily,
                !.inventoryFailedHosts = EmptyFamily,
                !.inventoryTotalHosts  = EmptyFamily]

\* "/api/v2/job_templates"
JobTemplatesPath ==
    <<"/", "a", "p", "i", "/", "v", "2", "/", "j", "o", "b", "_",
      "t", "e", "m", "p", "l", "a", "t", "e", "s">>

\* a JobTemplate as json.Unmarshal leaves it; an absent or null
\* last_job_run is ""
JobTemplate(id, lastJobRun, failed, total) ==
    [ID            |-> id,
     Name          |-> "t" \o Itoa(id),
     LastJobRun    |-> lastJobRun,
     SummaryFields |->
        [Inventory |-> [HostsWithFailures |-> failed, TotalHosts |-> total]]]

\* the body of the loop over response.Results with the rest of the body
\* skipped for a template whose last_job_run does not parse
TemplateObsSkipping(template) ==
    LET labels == <<Itoa(template.ID), template.Name>>
        t      == ParseRFC3339(template.LastJobRun)
        counts == << Obs("inventoryFailedHosts", labels,
                         template.SummaryFields.Inventory.HostsWithFailures),
                     Obs("inventoryTotalHosts", labels,
                         template.SummaryFields.Inventory.TotalHosts) >>
    IN  IF template.LastJobRun = EmptyText THEN counts
        ELSE IF t.ok THEN <<Obs("jobLastRunTimestamp", labels, t.unix)>> \o counts
        ELSE <<>>

\* the body of the loop over response.Results: the Set calls for one
\* template, in order
TemplateObs(template) ==
    LET labels == <<Itoa(template.ID), template.Name>>
        t      == ParseRFC3339(template.LastJobRun)
        stamp  == IF template.LastJobRun # EmptyText /\ t.ok
                  THEN <<Obs("jobLastRunTimestamp", labels, t.unix)>>
                  ELSE <<>>
    IN  stamp \o
        << Obs("inventoryFailedHosts", labels,
               template.SummaryFields.Inventory.HostsWithFailures),
           Obs("inventoryTotalHosts", labels,
               template.SummaryFields.Inventory.TotalHosts) >>

RECURSIVE TemplatesObs(_)
TemplatesObs(templates) ==
    IF templates = <<>> THEN <<>>
    ELSE TemplateObs(Head(templates)) \o TemplatesObs(Tail(templates))

\* the request of one loop iteration up to the decoded page: any failure
\* (no response, a status other than 200, an unreadable or undecodable
\* body) breaks out of the loop
TemplateFetch(resp) ==
    IF resp.transportErr \/ resp.StatusCode # 200 \/ resp.readErr
    THEN [err |-> TRUE, value |-> [Next |-> EmptyText, Results |-> <<>>]]
    ELSE Unmarshal(resp.body)

\* the templates the upstream reports: template 1 and template 2, each
\* with no last run, a last run or a last_job_run that is no timestamp
UpstreamTemplates ==
    { JobTemplate(id, run, id - 1, id + 2) :
        id \in {1, 2}, run \in {EmptyText, TsCreated, TsBadMonth} }

\* the result lists of a page of templates
TemplatePageResults ==
    {<<>>} \cup { <<t>> : t \in UpstreamTemplates }
           \cup { <<a, b>> : a \in { t \in UpstreamTemplates : t.ID = 1 },
                             b \in { t \in UpstreamTemplates : t.ID = 2 } }

\* "/p": the path of a further page
NextPagePath == <<"/", "p">>

TemplateResponses ==
    { Response(FALSE, 200, FALSE, JsonBody(n, r)) :
        n \in {<<>>, <<NextPagePath>>}, r \in TemplatePageResults }
    \cup { NoResponse,
           Response(FALSE, 500, FALSE, GarbageBody),
           Response(FALSE, 200, TRUE, EmptyBody),
           Response(FALSE, 200, FALSE, GarbageBody) }

\* what scrapeAWX and its goroutine leave alone
templateFrame ==
    <<config, totalHosts, tickPending, ctxDone, scrapes, requests, servedIds,
      lastGood, prevIds, obsLog, startup, client>>

InitTemplates ==
    /\ config = NoConfig
    /\ registry = NewTemplateRegistry
    /\ pc = "jt_start"
    /\ nextURL = EmptyText
    /\ pageCount = 0
    /\ totalHosts = 0
    /\ tickPending = FALSE
    /\ ctxDone = FALSE
    /\ scrapes = <<>>
    /\ requests = <<>>
    /\ servedIds = {}
    /\ lastNext = EmptyText
    /\ lastGood = Gauges(NewRegistry)
    /\ prevIds = {}
    /\ NoTransformerRun
    /\ StartupOver
    /\ NoClientCall

\* the goroutine calls scrapeAWX, at its start or when its sleep is over:
\* the three resets and the first path
ScrapeTemplatesBegins ==
    /\ pc \in {"jt_start", "jt_sleep"}
    /\ runs < MaxRuns
    /\ registry' = ResetTemplateMetrics(registry)
    /\ nextURL' = JobTemplatesPath
    /\ pageCount' = 0
    /\ lastNext' = EmptyText
    /\ batch' = <<>>
    /\ runs' = runs + 1
    /\ pc' = "jt_fetch"
    /\ UNCHANGED templateFrame

\* one loop iteration that breaks: scrapeAWX returns, the goroutine sleeps
TemplateFetchBreaks(resp) ==
    /\ pc = "jt_fetch"
    /\ nextURL # EmptyText
    /\ TemplateFetch(resp).err
    /\ pc' = "jt_sleep"
    /\ UNCHANGED <<registry, nextURL, pageCount, lastNext, batch, runs>>
    /\ UNCHANGED templateFrame

\* one loop iteration that decodes a page of templates; when the page's
\* next is "" the loop ends, scrapeAWX returns and the goroutine sleeps
TemplatePageProcessed(resp) ==
    /\ pc = "jt_fetch"
    /\ nextURL # EmptyText
    /\ ~TemplateFetch(resp).err
    /\ LET response == TemplateFetch(resp).value
       IN  /\ pageCount + 1 < MaxPages \/ response.Next = EmptyText
           /\ registry' = ApplyAll(registry, TemplatesObs(response.Results))
           /\ batch' = batch \o response.Results
           /\ lastNext' = response.Next
           /\ nextURL' = response.Next
           /\ pageCount' = pageCount + 1
           /\ pc' = IF response.Next = EmptyText THEN "jt_sleep" ELSE "jt_fetch"
    /\ UNCHANGED runs
    /\ UNCHANGED templateFrame

NextTemplates ==
    \/ ScrapeTemplatesBegins
    \/ \E resp \in TemplateResponses : TemplateFetchBreaks(resp)
    \/ \E resp \in TemplateResponses : TemplatePageProcessed(resp)

SpecTemplates == InitTemplates /\ [][NextTemplates]_vars

(***************************************************************************)
(* Client calls: buildURL applied once to a link and makeAWXRequest once   *)
(* to what its GET ends in, both drawn by the initial state, under a       *)
(* configuration loadConfig accepts.                                       *)
(***************************************************************************)
\* "https://awx/n"
NextAbsHttps == HttpsPrefix \o AwxHost \o NextRelSlash

\* the texts handed to buildURL: the links of the pages, the first path,
\* and texts close to a scheme prefix without being one
LinkTexts ==
    { EmptyText, Slash, NextRelSlash, NextRel, NextAbs, NextAbsHttps, HostsPath,
      HttpPrefix,
      <<"h", "t", "t", "p">>,
      <<"h", "t", "t", "p", ":", "/", "n">>,
      <<"H", "T", "T", "P", ":", "/", "/", "n">>,
      <<"/", "/">> }

\* the status codes of the responses on the wire
Statuses == {200, 201, 204, 302, 401, 404, 500}

\* the bodies on the wire
WireBodies ==
    { JsonBody(n, r) :
        n \in {<<>>, <<NextRelSlash>>}, r \in {<<>>, <<ScrapeHost(1)>>} }
    \cup { MarkupJsonBody(<<>>, <<ScrapeHost(1)>>), HtmlBody, GarbageBody, EmptyBody }

\* what the GET may end in: no response, or any status with any body,
\* readable or not
WireResponses ==
    {NoResponse} \cup
    { Response(FALSE, st, re, b) : st \in Statuses, re \in BOOLEAN, b \in WireBodies }

\* the environments loadConfig accepts
GoodEnvs == { e \in StartEnvs : ~loadConfig(e).fatal }

InitClient ==
    /\ env \in GoodEnvs
    /\ config = loadConfig(env).config
    /\ main = "serving"
    /\ pc = "client"
    /\ NoScrapeYet
    /\ NoTransformerRun
    /\ link \in LinkTexts
    /\ resolved = <<>>
    /\ upstream \in WireResponses
    /\ fetched = <<>>

\* one call buildURL(config, link)
ResolveLink ==
    /\ pc = "client"
    /\ resolved = <<>>
    /\ resolved' = <<buildURL(config, link)>>
    /\ UNCHANGED <<sched, registry, harness, startup, link, upstream, fetched>>

\* one call makeAWXRequest(client, config, url)
Request ==
    /\ pc = "client"
    /\ fetched = <<>>
    /\ fetched' = <<makeAWXRequest(upstream)>>
    /\ UNCHANGED <<sched, registry, harness, startup, link, resolved, upstream>>

NextClient == ResolveLink \/ Request

SpecClient == InitClient /\ [][NextClient]_vars

(***************************************************************************)
(* Properties of the scrape and the scheduler (Spec).                      *)
(***************************************************************************)
\* no scrape is running
ScrapeOver == pc \in {"select", "returned"}

FailedScrapes == Cardinality({ i \in DOMAIN scrapes : scrapes[i].result = "err" })

\* C1: once a failed scrape has ended, the per-scrape gauge families hold
\* exactly what they held after the last successful scrape before it.
C1_FailedScrapeKeepsLastGood ==
    (ScrapeOver /\ LastResult = "err") => Gauges(registry) = lastGood

\* C2: scrape_errors_total equals the number of failed scrapes: a failed
\* scrape adds exactly 1 and a successful one adds nothing.
C2_ErrorsCountFailedScrapes == registry.scrapeErrors = FailedScrapes

\* the series of the families labelled by host id that carry the id
HostSeries(reg, id) ==
    { l \in (DOMAIN reg.hostInfo) \cup (DOMAIN reg.hostStatus)
            \cup (DOMAIN reg.hostTimestamps) \cup (DOMAIN reg.hostGroupMembership) :
        l[1] = Itoa(id) }

\* the hosts with the given ids, by ascending id
RECURSIVE HostsById(_)
HostsById(ids) ==
    IF ids = {} THEN <<>>
    ELSE LET lo == CHOOSE i \in ids : \A j \in ids : i <= j
         IN  <<ScrapeHost(lo)>> \o HostsById(ids \ {lo})

\* the gauge families as the observations of these hosts alone make them
GaugesFrom(ids) == Gauges(ApplyAll(NewRegistry, HostsObs(HostsById(ids))))

TwoGoodScrapes ==
    /\ ScrapeOver
    /\ Len(scrapes) >= 2
    /\ scrapes[Len(scrapes)].result = "ok"
    /\ scrapes[Len(scrapes) - 1].result = "ok"

\* C3: after two consecutive successful scrapes no series carries the id of
\* a host that was in the first result set and is not in the second, and the
\* gauge families hold exactly the observations of the second scrape's pages.
C3_DisappearedHostLeavesNoSeries ==
    TwoGoodScrapes =>
        /\ \A id \in prevIds \ servedIds : HostSeries(registry, id) = {}
        /\ Gauges(registry) = GaugesFrom(servedIds)

\* host 2 (one group) was served by the first scrape and only host 1 by the
\* second
C3_Witness ==
    /\ TwoGoodScrapes
    /\ 2 \in prevIds
    /\ servedIds = {1}
    /\ DOMAIN registry.hostInfo # {}
    /\ HostSeries(registry, 2) = {}

\* the URL of a scrape's first request
FirstURL == HttpsPrefix \o AwxHost \o HostsPath

\* the `next` values that end the pagination
EndOfPages == {EmptyText, Slash}

\* the URL each other `next` of NextLinks stands for
LinkTarget(next) ==
    IF next = NextAbs THEN NextAbs ELSE HttpsPrefix \o AwxHost \o NextRelSlash

\* C4: while every page is well-formed, each request yields one page; the
\* walker makes no request after a page whose next is "", "/" or absent,
\* and after any other next its one further request is for the URL that
\* next resolves to; a scrape that ended made as many requests as pages.
C4_PaginationFollowsNext ==
    LastResult \in {"running", "ok"} =>
        /\ Len(requests) = pageCount
        /\ requests # <<>> => requests[1] = FirstURL
        /\ \A k \in 2..Len(requests) :
              requests[k] \in { LinkTarget(<<"/", "n">>), LinkTarget(NextAbs) }
        /\ pc = "fetch" =>
              /\ pageCount = 0 => nextURL = FirstURL
              /\ pageCount > 0 =>
                    /\ lastNext \notin EndOfPages
                    /\ nextURL = LinkTarget(lastNext)
        /\ ScrapeOver =>
              /\ pageCount >= 1
              /\ lastNext \in EndOfPages

\* a scrape of two pages ended; the second was requested at the absolute
\* link the first one carried
C4_Witness ==
    /\ ScrapeOver
    /\ LastResult = "ok"
    /\ pageCount = 2
    /\ requests = <<FirstURL, NextAbs>>
    /\ lastNext = Slash

\* C9: the reset at the start of a scrape empties the five gauge families
\* and leaves scrape_errors_total, hosts_processed_total and the histogram
\* as they are; no step ever decreases one of these three.
C9_ResetSparesSelfMonitoring ==
    [][ /\ registry'.scrapeErrors >= registry.scrapeErrors
        /\ registry'.hostsProcessed >= registry.hostsProcessed
        /\ registry'.scrapeDuration >= registry.scrapeDuration
        /\ Len(scrapes') > Len(scrapes) =>
              /\ \A f \in GaugeFamilies : registry'[f] = EmptyFamily
              /\ registry'.scrapeErrors = registry.scrapeErrors
              /\ registry'.hostsProcessed = registry.hostsProcessed
              /\ registry'.scrapeDuration = registry.scrapeDuration ]_vars

\* the second scrape has just reset the families the first one filled
C9_Witness ==
    /\ pc = "fetch"
    /\ pageCount = 0
    /\ Len(scrapes) = 2
    /\ lastGood.hostInfo # EmptyFamily
    /\ Gauges(registry) = Gauges(NewRegistry)
    /\ registry.hostsProcessed > 0
    /\ registry.scrapeDuration = 1

\* C10: once the context is cancelled the loop starts no scrape, whether or
\* not a tick is pending when it next waits.
C10_NoScrapeAfterCancel ==
    [][ (ctxDone /\ pc = "select") => Len(scrapes') = Len(scrapes) ]_vars

(***************************************************************************)
(* Properties of the transformer (SpecTransform).                          *)
(***************************************************************************)
\* the calls of a family among the Set calls made for one host
OfFamily(obs, fam) ==
    LET Is(o) == o.fam = fam IN SelectSeq(obs, Is)

StampsParse(host) ==
    /\ ParseRFC3339(host.Created).ok
    /\ ParseRFC3339(host.Modified).ok
    /\ host.AnsibleFactsModified # <<>> =>
          ParseRFC3339(host.AnsibleFactsModified[1]).ok

\* the calls for the status series of one metric under one group label
StatusCalls(obs, metric, group) ==
    { k \in DOMAIN obs :
        /\ obs[k].fam = "hostStatus"
        /\ obs[k].labels[3] = metric
        /\ obs[k].labels[4] = group }

\* C5: a host with valid timestamps and no group yields exactly two
\* host-status observations, both labelled "none"; with N > 0 groups it
\* yields exactly 2N, one active_failures and one inventory_sources per
\* group name, and exactly N membership and N group-info observations.
C5_ObservationCounts ==
    \A i \in DOMAIN obsLog :
        LET host   == batch[i]
            groups == host.SummaryFields.Groups.Results
            n      == Len(groups)
            obs    == obsLog[i]
        IN  StampsParse(host) =>
              /\ n = 0 =>
                    /\ Len(OfFamily(obs, "hostStatus")) = 2
                    /\ Cardinality(StatusCalls(obs, "active_failures", "none")) = 1
                    /\ Cardinality(StatusCalls(obs, "inventory_sources", "none")) = 1
              /\ n > 0 =>
                    /\ Len(OfFamily(obs, "hostStatus")) = 2 * n
                    /\ \A g \in 1..n :
                          /\ Cardinality(StatusCalls(obs, "active_failures",
                                                     groups[g].Name)) = 1
                          /\ Cardinality(StatusCalls(obs, "inventory_sources",
                                                     groups[g].Name)) = 1
              /\ Len(OfFamily(obs, "hostGroupMembership")) = n
              /\ Len(OfFamily(obs, "groupInfo")) = n

\* a batch of a host without groups and a host with two groups was processed
C5_Witness ==
    /\ runs >= 1
    /\ Len(batch) = 2
    /\ StampsParse(batch[1]) /\ StampsParse(batch[2])
    /\ Len(batch[1].SummaryFields.Groups.Results) = 0
    /\ Len(batch[2].SummaryFields.Groups.Results) = 2
    /\ Len(OfFamily(obsLog[1], "hostStatus")) = 2
    /\ Len(OfFamily(obsLog[2], "hostStatus")) = 4
    /\ Len(OfFamily(obsLog[2], "groupInfo")) = 2

\* the calls for the timestamp series of one event
StampCalls(obs, event) ==
    { k \in DOMAIN obs : obs[k].fam = "hostTimestamps" /\ obs[k].labels[3] = event }

\* C6: a host whose modified does not parse, and whose other timestamps do,
\* still yields its info, status, created, facts-modified (when present),
\* membership and group-info observations; only "modified" is missing.
C6_BadModifiedKeepsRest ==
    \A i \in DOMAIN obsLog :
        LET host == batch[i]
            n    == Len(host.SummaryFields.Groups.Results)
            obs  == obsLog[i]
        IN  ( /\ ParseRFC3339(host.Created).ok
              /\ ~ParseRFC3339(host.Modified).ok
              /\ host.AnsibleFactsModified # <<>> =>
                    ParseRFC3339(host.AnsibleFactsModified[1]).ok ) =>
              /\ Len(OfFamily(obs, "hostInfo")) = 1
              /\ Len(OfFamily(obs, "hostStatus")) = (IF n = 0 THEN 2 ELSE 2 * n)
              /\ Cardinality(StampCalls(obs, "created")) = 1
              /\ Cardinality(StampCalls(obs, "modified")) = 0
              /\ Cardinality(StampCalls(obs, "ansible_facts_modified")) =
                    (IF host.AnsibleFactsModified # <<>> THEN 1 ELSE 0)
              /\ Len(OfFamily(obs, "hostGroupMembership")) = n
              /\ Len(OfFamily(obs, "groupInfo")) = n

\* C7: the host-info observation of a host carries enabled="true" when the
\* host is enabled and enabled="false" when it is not, and its value is 1;
\* that series is in the registry with value 1.
C7_EnabledLabel ==
    \A i \in DOMAIN obsLog :
        LET info == OfFamily(obsLog[i], "hostInfo")
        IN  /\ Len(info) = 1
            /\ info[1].labels[1] = Itoa(batch[i].ID)
            /\ batch[i].Enabled => info[1].labels[5] = "true"
            /\ ~batch[i].Enabled => info[1].labels[5] = "false"
            /\ info[1].value = 1
            /\ info[1].labels \in DOMAIN registry.hostInfo
            /\ registry.hostInfo[info[1].labels] = 1

\* an enabled and a disabled host with the same id were processed: two
\* host-info series
C7_Witness ==
    /\ runs >= 1
    /\ Len(batch) = 2
    /\ batch[1].Enabled /\ ~batch[2].Enabled
    /\ batch[1].ID = batch[2].ID
    /\ Cardinality(DOMAIN registry.hostInfo) = 2

\* a run of the transformer over a batch it has processed before
RepeatedRun == pc = "transform" /\ runs >= 1 /\ runs' = runs + 1

\* C8 as stated: a second run over the same input, without a reset, leaves
\* the registry snapshot as it was after the first run.
C8_SecondRunLeavesRegistry ==
    [][ RepeatedRun => registry' = registry ]_vars

\* C8 as the code has it: a second run leaves the five gauge families, the
\* error counter and the histogram as they were, and adds the number of
\* hosts of the batch to hosts_processed_total.
C8_SecondRunLeavesGauges ==
    [][ RepeatedRun =>
          /\ Gauges(registry') = Gauges(registry)
          /\ registry'.scrapeErrors = registry.scrapeErrors
          /\ registry'.scrapeDuration = registry.scrapeDuration
          /\ registry'.hostsProcessed = registry.hostsProcessed + Len(batch) ]_vars

\* two hosts with the same id and different flags were processed twice
C8_Witness ==
    /\ runs = 2
    /\ Len(batch) = 2
    /\ batch[1].ID = batch[2].ID
    /\ batch[1].HasActiveFailures # batch[2].HasActiveFailures
    /\ registry.hostsProcessed = 4
    /\ DOMAIN registry.hostStatus # {}

(***************************************************************************)
(* Further properties of the scheduler (Spec).                             *)
(***************************************************************************)
\* the scrapes of the history that have not returned
Running == { i \in DOMAIN scrapes : scrapes[i].result = "running" }

\* C11: at most one scrape is executing; the one executing is the one
\* started last, and the loop is inside it; while the loop waits or has
\* returned none is executing, whatever ticks arrived meanwhile.
C11_OneScrapeAtATime ==
    /\ Cardinality(Running) <= 1
    /\ pc = "fetch" => Running = {Len(scrapes)}
    /\ pc # "fetch" => Running = {}

\* a tick arrived while the tick-triggered scrape is past its first page
C11_Witness ==
    /\ pc = "fetch"
    /\ tickPending
    /\ Len(scrapes) = 2
    /\ scrapes[2].trigger = "tick"
    /\ pageCount >= 1
    /\ Running = {2}

\* C12: the loop's first step is the initial scrape, taken without a tick;
\* a scrape that starts when one has run before starts from the select and
\* takes the pending tick.
C12_InitialThenTicks ==
    [][ /\ (pc = "start" /\ pc' # pc) =>
              /\ scrapes = <<>>
              /\ Len(scrapes') = 1
              /\ scrapes'[1].trigger = "initial"
              /\ tickPending' = tickPending
        /\ (Len(scrapes') > Len(scrapes) /\ pc # "start") =>
              /\ scrapes # <<>>
              /\ pc = "select"
              /\ tickPending /\ ~tickPending'
              /\ scrapes'[Len(scrapes')].trigger = "tick" ]_vars

\* the initial scrape and one tick-triggered scrape have run
C12_Witness ==
    /\ Len(scrapes) = 2
    /\ scrapes[1].trigger = "initial"
    /\ scrapes[2].trigger = "tick"
    /\ ScrapeOver

\* a step in which the running scrape returns an error
ScrapeFails == LastResult = "running" /\ LastResult' = "err"

\* C15: a scrape that fails leaves the scrape_duration_seconds histogram
\* as it was: the step in which it returns an error adds no observation.
C15_FailedScrapeLeavesHistogram ==
    [][ ScrapeFails => registry'.scrapeDuration = registry.scrapeDuration ]_vars

\* C17: while a scrape is running the per-scrape gauge families hold the
\* complete result of the last successful scrape before it, so that a read
\* of /metrics at any instant sees that result or, once the scrape has
\* returned, the complete result of the scrape; never the empty families
\* after the reset and never the observations of only some pages.
C17_ReadsSeeWholeScrapes == pc = "fetch" => Gauges(registry) = lastGood

\* C19: the step in which a scrape fails leaves the loop at its select;
\* from there, until a tick is taken, no request is made, and the step
\* that takes the tick starts a new scrape at the first page, whose first
\* request is for the hosts endpoint.
C19_FailureWaitsForTick ==
    [][ /\ ScrapeFails => pc' = "select"
        /\ (pc = "select" /\ LastResult = "err") =>
              \/ /\ requests' = requests
                 /\ Len(scrapes') = Len(scrapes)
                 /\ pc' \in {"select", "returned"}
              \/ /\ tickPending /\ ~tickPending'
                 /\ Len(scrapes') = Len(scrapes) + 1
                 /\ pc' = "fetch"
                 /\ requests' = <<>>
                 /\ pageCount' = 0
                 /\ nextURL' = FirstURL
        /\ (pc = "fetch" /\ requests = <<>> /\ requests' # <<>>) =>
              requests' = <<FirstURL>> ]_vars

\* the initial scrape failed on its first request, and the scrape the next
\* tick started has fetched its first page from the hosts endpoint
C19_Witness ==
    /\ Len(scrapes) = 2
    /\ scrapes[1].result = "err"
    /\ scrapes[2].trigger = "tick"
    /\ pageCount = 1
    /\ requests = <<FirstURL>>
    /\ servedIds # {}

(***************************************************************************)
(* Properties of the client calls (SpecClient).                            *)
(***************************************************************************)
\* a response arrived and makeAWXRequest has returned
Answered == fetched # <<>> /\ ~upstream.transportErr

\* the body holds the marker "<html"
HasHtmlMarker(body) == ~body.empty /\ body.html

\* what C13 says of the statuses in the set ok: the status error is
\* returned exactly for a response whose status is outside ok, it carries
\* that status, and a response with a status in ok and a readable body
\* without the marker gives that body and no error
StatusRule(ok) ==
    fetched # <<>> =>
        LET r == fetched[1]
        IN  /\ r.kind = "status" <=>
                  (~upstream.transportErr /\ upstream.StatusCode \notin ok)
            /\ r.kind = "status" => r.err /\ r.status = upstream.StatusCode
            /\ ( /\ ~upstream.transportErr
                 /\ upstream.StatusCode \in ok
                 /\ ~upstream.readErr
                 /\ ~HasHtmlMarker(upstream.body) ) =>
                  ~r.err /\ r.body = upstream.body

\* C13 as stated: the status error is returned exactly for the statuses
\* outside 200..299, and every status in 200..299 with a readable body
\* without the marker gives the body.
C13_ErrorIffNon2xx == StatusRule(200..299)

\* C13 as the code has it: the status error is returned exactly for the
\* statuses other than 200, it carries the status, and status 200 with a
\* readable body without the marker gives the body.
C13_ErrorIffNot200 == StatusRule({200})

\* a 204 with a readable JSON page was answered by the status error
C13_Witness ==
    /\ Answered
    /\ upstream.StatusCode = 204
    /\ ~upstream.readErr
    /\ upstream.body.valid /\ ~upstream.body.html
    /\ fetched[1].kind = "status"
    /\ fetched[1].status = 204

\* C14: for a readable response of status 200, a body that holds the HTML
\* marker is answered by the unexpected-content error and no body is
\* handed on to the decoder, and a body that is a JSON page is returned.
C14_HtmlRejectedJsonReturned ==
    (Answered /\ upstream.StatusCode = 200 /\ ~upstream.readErr) =>
        LET r == fetched[1]
        IN  /\ HasHtmlMarker(upstream.body) =>
                  r.err /\ r.kind = "html" /\ r.body = EmptyBody
            /\ upstream.body.valid => ~r.err /\ r.body = upstream.body

\* the scheme, "://" and the host of a configuration
BaseOf(c) ==
    (IF c.UseHTTP THEN <<"h", "t", "t", "p">> ELSE <<"h", "t", "t", "p", "s">>)
    \o <<":", "/", "/">> \o c.Host

\* the text begins with "http://" or "https://"
HasScheme(t) ==
    \/ Len(t) >= 7 /\ SubSeq(t, 1, 7) = <<"h", "t", "t", "p", ":", "/", "/">>
    \/ Len(t) >= 8 /\ SubSeq(t, 1, 8) = <<"h", "t", "t", "p", "s", ":", "/", "/">>

\* C18: buildURL returns a link with a scheme prefix verbatim, "" for ""
\* and "/", and for any other link scheme://host followed by the link as a
\* path, a "/" put before it when it has none; the scheme is http when
\* the HTTP toggle is set and https otherwise.
C18_NextLinkResolution ==
    resolved # <<>> =>
        LET u == resolved[1]
            b == BaseOf(config)
        IN  /\ HasScheme(link) => u = link
            /\ (Len(link) = 0 \/ link = <<"/">>) => u = <<>>
            /\ (~HasScheme(link) /\ Len(link) > 0 /\ link # <<"/">>) =>
                  /\ Len(u) > Len(b)
                  /\ SubSeq(u, 1, Len(b)) = b
                  /\ u[Len(b) + 1] = "/"
                  /\ link[1] = "/" => SubSeq(u, Len(b) + 1, Len(u)) = link
                  /\ link[1] # "/" => SubSeq(u, Len(b) + 2, Len(u)) = link

\* with the HTTP toggle set, "n" was resolved to "http://awx/n"
C18_Witness ==
    /\ config.UseHTTP
    /\ link = <<"n">>
    /\ resolved = << <<"h", "t", "t", "p", ":", "/", "/", "a", "w", "x", "/", "n">> >>

(***************************************************************************)
(* Properties of the process from its start (SpecProcess).                 *)
(***************************************************************************)
\* one of the three required variables is unset or empty
CredentialMissing ==
    env.AWX_HOST = <<>> \/ env.AWX_USER = <<>> \/ env.AWX_PASSWORD = <<>>

\* nothing of the process beyond main's first call has run
NothingStarted ==
    /\ pc = "unspawned"
    /\ scrapes = <<>>
    /\ requests = <<>>
    /\ registry = NewRegistry
    /\ config = NoConfig
    /\ ~ctxDone

\* what holds of every state at and after the loading of the configuration
StartupRule ==
    /\ CredentialMissing =>
          /\ main \in {"load", "fatal"}
          /\ NothingStarted
    /\ ~CredentialMissing =>
          /\ main # "fatal"
          /\ main # "load" =>
                /\ config.Host = env.AWX_HOST[1]
                /\ config.User = env.AWX_USER[1]
                /\ config.Password = env.AWX_PASSWORD[1]
    /\ main = "fatal" => CredentialMissing
    /\ main = "load" => NothingStarted

\* C16: with a required credential missing, main's first step ends the
\* process: no later step exists, so no scrape is started and the server
\* never serves; with the three credentials set the validation succeeds
\* and the configuration holds them.
C16_MissingCredentialIsFatal ==
    /\ []StartupRule
    /\ [][ /\ main # "fatal"
           /\ (main = "load" /\ CredentialMissing) => main' = "fatal"
           /\ (main = "load" /\ ~CredentialMissing) => main' = "loaded" ]_vars

\* host and user are set, the password is not: the process has ended in
\* log.Fatalf
C16_Witness ==
    /\ main = "fatal"
    /\ env.AWX_HOST # <<>>
    /\ env.AWX_USER # <<>>
    /\ env.AWX_PASSWORD = <<>>
    /\ NothingStarted

\* every Set call processHost makes for the host is in the registry
Published(reg, host) ==
    LET obs == processHost(host).obs
    IN  \A k \in DOMAIN obs :
            /\ obs[k].labels \in DOMAIN reg[obs[k].fam]
            /\ reg[obs[k].fam][obs[k].labels] = obs[k].value

\* a step in which a page with hosts was decoded
PageDecoded == totalHosts' > totalHosts

\* C20: the step that decodes a page, a page that holds a host whose
\* modified does not parse included, counts no error and does not fail the
\* scrape; the hosts after that host in the page are published in full,
\* the hosts counter grows by the length of the page, and the scrape goes
\* on to the next page or, after the last page, returns success.
C20_ParseErrorKeepsScrapeGoing ==
    [][ PageDecoded =>
          /\ registry'.scrapeErrors = registry.scrapeErrors
          /\ LastResult' \in {"running", "ok"}
          /\ registry'.hostsProcessed =
                registry.hostsProcessed + (totalHosts' - totalHosts)
          /\ \A id \in servedIds' \ servedIds :
                \E l \in DOMAIN registry'.hostInfo : l[1] = Itoa(id)
          /\ 2 \in servedIds' \ servedIds => Published(registry', ScrapeHost(2))
          /\ IF lastNext' \in EndOfPages
             THEN pc' = "select" /\ LastResult' = "ok"
             ELSE pc' = "fetch" /\ LastResult' = "running"
                  /\ nextURL' = buildURL(config, lastNext') ]_vars

\* a scrape of two pages returned success: the first page held host 3,
\* whose modified does not parse, before host 2, the second held host 1;
\* only the series after host 3's failure are missing and no error is
\* counted
C20_Witness ==
    /\ ScrapeOver
    /\ LastResult = "ok"
    /\ Len(scrapes) = 1
    /\ pageCount = 2
    /\ servedIds = {1, 2, 3}
    /\ registry.scrapeErrors = 0
    /\ registry.hostsProcessed = 3
    /\ <<"3", "h3", "created">> \in DOMAIN registry.hostTimestamps
    /\ <<"3", "h3", "modified">> \notin DOMAIN registry.hostTimestamps
    /\ processHost(BadStampHost).err
    /\ Published(registry, ScrapeHost(2))
    /\ Published(registry, ScrapeHost(1))

(***************************************************************************)
(* Properties of the walk over pages that keep linking on (SpecWalk).      *)
(***************************************************************************)
\* the last page decoded in the scrape linked on and no request has failed
LinkedOn ==
    /\ scrapes # <<>>
    /\ pageCount >= 1
    /\ lastNext \notin EndOfPages
    /\ LastResult # "err"

\* C21: however many pages a scrape has fetched, as long as the page
\* fetched last carries a next other than "" and "/" the scrape has not
\* returned: the loop is inside it with the linked page to request, it is
\* the scrape started last, so that no later one has started, and the
\* gauge families hold the observations of the pages fetched since the
\* reset and nothing else.
C21_WalkHasNoPageBound ==
    LinkedOn =>
        /\ pc = "fetch"
        /\ Running = {Len(scrapes)}
        /\ nextURL = LinkTarget(lastNext)
        /\ Len(requests) = pageCount
        /\ Gauges(registry) = GaugesFrom(servedIds)
        /\ registry.scrapeDuration = Len(scrapes) - 1

\* the initial scrape has gone four times round two pages that link to
\* each other; a tick is waiting and no second scrape has started
C21_Witness ==
    /\ pc = "fetch"
    /\ Len(scrapes) = 1
    /\ tickPending
    /\ pageCount = 4
    /\ requests = <<FirstURL, LinkTarget(NextRelSlash), NextAbs,
                    LinkTarget(NextRelSlash)>>
    /\ nextURL = NextAbs
    /\ servedIds = {1, 2}
    /\ registry.hostsProcessed = 4

(***************************************************************************)
(* Further properties of the transformer (SpecTransform).                  *)
(***************************************************************************)
\* the group-info label tuples of the groups of one host
GroupTuplesOf(host) ==
    { <<Itoa(host.SummaryFields.Groups.Results[g].ID),
        host.SummaryFields.Groups.Results[g].Name,
        Itoa(host.SummaryFields.Inventory.ID)>> :
        g \in DOMAIN host.SummaryFields.Groups.Results }

\* the distinct (group id, group name, inventory id) tuples among the
\* groups of the hosts of the batch
GroupTuples == UNION { GroupTuplesOf(batch[i]) : i \in DOMAIN batch }

\* C22: after the hosts of the batch were processed, the group-info family
\* holds exactly one series per distinct (group id, group name, inventory
\* id) tuple among the hosts' groups, a group several hosts are in
\* included once, and every series of the host-info, membership and
\* group-info families has value 1.
C22_GroupInfoOnePerTuple ==
    runs >= 1 =>
        /\ DOMAIN registry.groupInfo = GroupTuples
        /\ \A fam \in {"hostInfo", "hostGroupMembership", "groupInfo"} :
              \A l \in DOMAIN registry[fam] : registry[fam][l] = 1

\* the group labels a host's status is reported under
GroupLabels(host) ==
    IF Len(host.SummaryFields.Groups.Results) = 0 THEN {"none"}
    ELSE { host.SummaryFields.Groups.Results[g].Name :
             g \in DOMAIN host.SummaryFields.Groups.Results }

\* no other host of the batch carries the id of host i
SoleId(i) == \A j \in DOMAIN batch : batch[j].ID = batch[i].ID => j = i

\* the value a flag is reported as
FlagValue(flag) == IF flag THEN 1 ELSE 0

\* C23: for every host and every group label it is reported under, the
\* active_failures series is written 1 when has_active_failures is true
\* and 0 otherwise, the inventory_sources series 1 when
\* has_inventory_sources is true and 0 otherwise, the same value under all
\* of the host's labels and under no other label; the registry holds these
\* values for a host whose id no other host of the batch carries.
C23_StatusValues ==
    \A i \in DOMAIN obsLog :
        LET host == batch[i]
            obs  == obsLog[i]
            id   == Itoa(host.ID)
        IN  /\ \A k \in DOMAIN obs :
                  obs[k].fam = "hostStatus" =>
                      /\ obs[k].labels[4] \in GroupLabels(host)
                      /\ obs[k].labels[3] = "active_failures" =>
                            obs[k].value = FlagValue(host.HasActiveFailures)
                      /\ obs[k].labels[3] = "inventory_sources" =>
                            obs[k].value = FlagValue(host.HasInventorySources)
            /\ \A lab \in GroupLabels(host) :
                  /\ StatusCalls(obs, "active_failures", lab) # {}
                  /\ StatusCalls(obs, "inventory_sources", lab) # {}
                  /\ SoleId(i) =>
                        /\ <<id, host.Name, "active_failures", lab>>
                              \in DOMAIN registry.hostStatus
                        /\ registry.hostStatus[<<id, host.Name, "active_failures", lab>>]
                              = FlagValue(host.HasActiveFailures)
                        /\ <<id, host.Name, "inventory_sources", lab>>
                              \in DOMAIN registry.hostStatus
                        /\ registry.hostStatus[<<id, host.Name, "inventory_sources", lab>>]
                              = FlagValue(host.HasInventorySources)

\* a host in two groups with active failures and without inventory
\* sources was processed
C23_Witness ==
    /\ runs >= 1
    /\ Len(batch) = 1
    /\ batch[1].ID = 1
    /\ batch[1].HasActiveFailures /\ ~batch[1].HasInventorySources
    /\ GroupLabels(batch[1]) = {"g1", "g2"}
    /\ DOMAIN registry.hostStatus =
          { <<"1", "h1", m, g>> :
              m \in {"active_failures", "inventory_sources"}, g \in {"g1", "g2"} }
    /\ registry.hostStatus[<<"1", "h1", "active_failures", "g1">>] = 1
    /\ registry.hostStatus[<<"1", "h1", "active_failures", "g2">>] = 1
    /\ registry.hostStatus[<<"1", "h1", "inventory_sources", "g1">>] = 0
    /\ registry.hostStatus[<<"1", "h1", "inventory_sources", "g2">>] = 0

(***************************************************************************)
(* Properties of the job-template variant (SpecTemplates).                 *)
(***************************************************************************)
TemplateKey(template) == <<Itoa(template.ID), template.Name>>

HasLastRun(template) ==
    /\ template.LastJobRun # EmptyText
    /\ ParseRFC3339(template.LastJobRun).ok

\* the template at position i is the only one of its key decoded since the
\* reset
SoleTemplate(i) ==
    \A j \in 1..Len(batch) : TemplateKey(batch[j]) = TemplateKey(batch[i]) => j = i

TemplateGaugesMatch ==
    /\ DOMAIN registry.inventoryFailedHosts
         = { TemplateKey(batch[i]) : i \in 1..Len(batch) }
    /\ DOMAIN registry.inventoryTotalHosts
         = { TemplateKey(batch[i]) : i \in 1..Len(batch) }
    /\ DOMAIN registry.jobLastRunTimestamp
         = { TemplateKey(batch[i]) :
               i \in { j \in 1..Len(batch) : HasLastRun(batch[j]) } }
    /\ \A i \in 1..Len(batch) :
         SoleTemplate(i) =>
           LET k == TemplateKey(batch[i])
           IN  /\ registry.inventoryFailedHosts[k]
                    = batch[i].SummaryFields.Inventory.HostsWithFailures
               /\ registry.inventoryTotalHosts[k]
                    = batch[i].SummaryFields.Inventory.TotalHosts
               /\ HasLastRun(batch[i]) =>
                    registry.jobLastRunTimestamp[k]
                      = ParseRFC3339(batch[i].LastJobRun).unix

TemplatePageDecoded == pageCount' = pageCount + 1

\* C24: in the job-template variant, the templates decoded since the reset
\* are exactly the keys (id, name) of the failed-host and total-host gauges,
\* with the values of the inventory summary; the last-run gauge exists
\* exactly for the templates whose last_job_run is non-empty and parses;
\* and a decoded page, whatever its templates' last_job_run, is followed by
\* the request for its next page, or by the end of the scrape when it has
\* none.
C24_TemplateGauges ==
    /\ [](TemplateGaugesMatch)
    /\ [][TemplatePageDecoded =>
            IF lastNext' = EmptyText
            THEN pc' = "jt_sleep"
            ELSE pc' = "jt_fetch" /\ nextURL' = lastNext']_vars

\* a template with an unparseable last_job_run, then one with a last run,
\* then, on a second page, one with no last run: all three have their
\* count gauges and only the second its last-run gauge
C24_Witness ==
    /\ pc = "jt_sleep"
    /\ pageCount = 2
    /\ Len(batch) = 3
    /\ batch[1].LastJobRun = TsBadMonth
    /\ HasLastRun(batch[2])
    /\ batch[3].LastJobRun = EmptyText
    /\ batch[3].ID = batch[2].ID
    /\ DOMAIN registry.jobLastRunTimestamp = {TemplateKey(batch[2])}
    /\ DOMAIN registry.inventoryTotalHosts
         = {TemplateKey(batch[1]), TemplateKey(batch[2])}

(***************************************************************************)
(* The hosts counter over the whole run (SpecProcess).                     *)
(***************************************************************************)
\* the host entries a step decodes: the growth of the scrape's own count
\* of the entries of its decoded pages, which a new scrape starts at 0
EntriesDecoded ==
    IF Len(scrapes') = Len(scrapes) THEN totalHosts' - totalHosts ELSE 0

\* C25: hosts_processed_total starts at 0 and every step adds to it the
\* number of host entries of the page the step decodes, nothing else: no
\* reset at the start of a scrape, nothing taken back when the scrape fails
\* later, and a host whose processing returned an error counted like any
\* other.
C25_HostsProcessedCountsDecodedEntries ==
    /\ registry.hostsProcessed = 0
    /\ [][registry'.hostsProcessed = registry.hostsProcessed + EntriesDecoded]_vars

\* a first scrape that decoded the page with the host whose modified does
\* not parse and failed on its second request, and a second scrape that
\* decoded that page and a last page of one host: 2 + 3 entries
C25_Witness ==
    /\ Len(scrapes) = 2
    /\ scrapes[1].result = "err"
    /\ LastResult = "ok"
    /\ servedIds = {1, 2, 3}
    /\ prevIds = {2, 3}
    /\ registry.hostsProcessed = 5

(***************************************************************************)
(* Liveness of the shutdown (SpecProcessFair).                             *)
(***************************************************************************)
\* C26 as stated: once the context is cancelled, be it before or during the
\* initial collection, during a collection a tick started, or while the
\* loop waits in its select, updateMetrics eventually returns.
C26_ShutdownReturnsLoop == ctxDone ~> (pc = "returned")

\* C26: once the context is cancelled, be it before or during the initial
\* collection, during a collection a tick started, or while the loop waits
\* in its select, with or without a tick waiting, updateMetrics eventually
\* returns, unless the process exits first.
C26_ShutdownReturnsLoopOrExit == ctxDone ~> (pc = "returned" \/ main = "exited")

\* the loop has returned, in a process that is still serving, after an
\* initial and a tick-triggered collection, with a tick waiting in the
\* ticker's channel that it did not take
C26_Witness ==
    /\ pc = "returned"
    /\ main = "serving"
    /\ ctxDone
    /\ tickPending
    /\ Len(scrapes) = 2
    /\ scrapes[2].trigger = "tick"
====
